---- MODULE Spec2Model ----
(***************************************************************************)
(* The playback/transition engine of the slideshow: the Slideshow          *)
(* component of src/src/components/slide-show.tsx (first implementation,   *)
(* lines 1-384), its media helpers (src/unnamed/part_002) and the App that *)
(* owns its props and its React key (src/unnamed/part_003).                *)
(*                                                                         *)
(* Time is in milliseconds.  A timer is the number of milliseconds left    *)
(* until it fires, or Off.  A timer that has reached 0 fires before time   *)
(* moves on.  One action is one callback of the program (an event handler, *)
(* a timer callback, the continuation of an await) together with the       *)
(* re-render and the effect clean-ups / effect bodies React runs for the   *)
(* state it changed.                                                       *)
(***************************************************************************)
EXTENDS Integers, Sequences, FiniteSets, TLC

\* ------------------------------------------------------------- bounds
MaxLen == 2
MaxOrderLen == 3
MaxSeed == 6

\* -------------------------------------------------- program constants
HoldMs == 560
ImageTimeoutMs == 2000
VideoTimeoutMs == 4500
FirstFrameMs == 350
TickMs == 16
TickSlackMs == 6
MinIntervalMs == 500
InitialIntervalSec == 3
SliderMin == 1
SliderMax == 20
LcgA == 9301
LcgC == 49297
LcgM == 233280

Off == 0 - 1

Max(a, b) == IF a >= b THEN a ELSE b
Min(a, b) == IF a <= b THEN a ELSE b

\* ------------------------------------------------------------- media
\* A MediaItem {type, src}; src is the position of the file in the sorted
\* listing, so two entries of one list never share a source.
NoItem == [type |-> "none", src |-> 0]

MediaLists ==
    UNION {[1..n -> {"image", "video"}] : n \in 0..MaxLen}

toItems(kinds) ==
    [k \in 1..Len(kinds) |-> [type |-> kinds[k], src |-> k]]

\* intervalSec is held in slider steps of 0.5 s (the slider's step), so the
\* source's intervalSec * 1000 is intervalSec * 500 here.  The values tried
\* are the slider's minimum and the initial 3 s.
IntervalChoices == {SliderMin, 2 * InitialIntervalSec}

nextIndex(i, len) ==
    IF len <= 0 THEN 0 ELSE (i + 1) % len

keyOf(item) == <<item.type, item.src>>

NoKey == <<"none", 0>>

\* An array element that was never set, or was set to undefined.
Undefined == 0 - 1

\* a % m of JavaScript (the sign of a), for m > 0.
jsRem(a, m) == IF a >= 0 THEN a % m ELSE 0 - ((0 - a) % m)

\* Math.floor(a / m), for m > 0.
floorDiv(a, m) ==
    IF a >= 0 THEN a \div m ELSE 0 - (((0 - a) + m - 1) \div m)

\* (a * b) % m for 0 <= a < m, in steps that stay below 2^31.
mulMod(a, b, m) == (((a * (b \div 2)) % m) * 2 + a * (b % 2)) % m

\* s = (s * 9301 + 49297) % 233280, for |s| < 233280 (every s after the
\* first is, and the seeds tried are); the doubles of the source are exact
\* at these sizes.
lcg(s) ==
    IF s >= 0 THEN (mulMod(s, LcgA, LcgM) + LcgC) % LcgM
    ELSE IF (0 - s) * LcgA <= LcgC THEN LcgC - (0 - s) * LcgA
    ELSE 0 - ((mulMod(0 - s, LcgA, LcgM) + LcgM - LcgC) % LcgM)

\* The loop of the shuffle from index i down to 1.  arr holds the array's
\* elements 0..n-1 and, at the negative indices, the properties the swap
\* creates when j is negative (Undefined while not set).
\* j = Math.floor((s / 233280) * (i + 1)).
RECURSIVE shuffleFrom(_, _, _)
shuffleFrom(arr, s, i) ==
    IF i <= 0 THEN arr
    ELSE LET s1 == lcg(s)
             j == floorDiv(s1 * (i + 1), LcgM)
             ai == arr[i]
             aj == arr[j]
         IN  shuffleFrom([arr EXCEPT ![i] = aj, ![j] = ai], s1, i - 1)

\* items.map((_, i) => i)
indices(n) == [k \in 0..(n - 1) |-> k]

\* The order useMemo computes for a list of n items.
orderOf(n, shuffle, shuffleSeed) ==
    IF ~shuffle THEN indices(n)
    ELSE LET arr0 == [k \in (0 - n)..(n - 1) |-> IF k >= 0 THEN k ELSE Undefined]
             s0 == IF shuffleSeed = 0 THEN 1 ELSE shuffleSeed
             arr == shuffleFrom(arr0, s0, n - 1)
         IN  [k \in 0..(n - 1) |-> arr[k]]

\* App passes shuffle={false} and shuffleSeed={0}: the memo returns the index
\* array as it is.
order(its) == indices(Len(its))

\* items[order[k] ?? 0] ?? null
itemAt(its, k) ==
    LET ord == order(its)
        o == IF k \in DOMAIN ord /\ ord[k] # Undefined THEN ord[k] ELSE 0
    IN  IF (o + 1) \in DOMAIN its THEN its[o + 1] ELSE NoItem

safeLenOf(its) == Len(its)

shownIdxOf(its, i) ==
    LET n == safeLenOf(its)
    IN  IF n # 0 THEN ((i % n) + n) % n ELSE 0

shownItemOf(its, i) ==
    IF safeLenOf(its) # 0 THEN itemAt(its, shownIdxOf(its, i)) ELSE NoItem

\* intervalMs without the floor of 500 ms.
intervalMsUnclamped(sec) == sec * 500

intervalMsOf(sec) == Max(MinIntervalMs, sec * 500)

\* timeoutMs with the two kinds exchanged.
timeoutMsSwapped(item) ==
    IF item.type = "video" THEN ImageTimeoutMs ELSE VideoTimeoutMs

timeoutMsOf(item) ==
    IF item.type = "video" THEN VideoTimeoutMs ELSE ImageTimeoutMs

\* ------------------------------------------------------------- state
\* App: items, loaded (the load promise has resolved), playing, intervalSec,
\* settingsOpen.  Slideshow: idx, incoming.  probes: the runs of the probe
\* effect.  Timers: commitT (the 560 ms hold), advT (the 16 ms tick) with
\* dueRem (dueRef - now), playT (the video play effect's setTimeout 0).
\* shownVid / incVid: the <video> element of the shown / incoming layer.
\* History: sinceStaged (ms since incoming was staged, while it is not
\* ready), sinceReady (ms since its flag was set), sinceArmed (ms since the
\* advance timer was armed; once it has staged an incoming, the time at
\* which it did, until the commit), last (the step taken
\* last: its callback, whose it was, the requests it sent through
\* onPlayingChange, for the capture gesture whether it found
\* playing = false and whether it found the settings sheet closed, and the
\* item its prefetch effect handed to prefetchMedia, NoItem if none).
\* props / view: the Slideshow taken alone, under any parent: the props of
\* one render and what that render computed from them.  They belong to the
\* specifications of the component's parts (SpecTimerEffect and the ones
\* after it); under Spec the props are App's, held in the variables above.
VARIABLES
    items, loaded, playing, intervalSec, settingsOpen,
    idx, incoming,
    probes,
    commitT, advT, dueRem, playT,
    shownVid, incVid,
    sinceStaged, sinceReady, sinceArmed,
    last,
    props, view

appVars == <<items, loaded, playing, intervalSec, settingsOpen>>
engineVars == <<idx, incoming>>
timerVars == <<commitT, advT, dueRem, playT>>
mediaVars == <<probes, shownVid, incVid>>
clockVars == <<sinceStaged, sinceReady, sinceArmed>>
partVars == <<props, view>>
appSpecVars == <<appVars, engineVars, timerVars, mediaVars, clockVars, last>>
vars == <<appSpecVars, partVars>>

\* incoming === null
None == [idx |-> 0 - 1, key |-> NoKey, ready |-> FALSE]

safeLen == safeLenOf(items)
shownIdx == shownIdxOf(items, idx)
shownItem == shownItemOf(items, idx)
shownKey == IF shownItem # NoItem THEN keyOf(shownItem) ELSE NoKey
shownIsImage == shownItem.type = "image"
shownIsVideo == shownItem.type = "video"
incomingItem == IF incoming = None THEN NoItem ELSE itemAt(items, incoming.idx)

\* ---------------------------------------------------- video elements
\* State of a <video> element: "none" (no element), "paused", "playing",
\* "ended".
pauseEl(s) == IF s = "playing" THEN "paused" ELSE s

playEl(s) == IF s = "none" THEN "none" ELSE "playing"

seekStart(s) == IF s = "ended" THEN "paused" ELSE s

\* el.pause(); el.currentTime = 0; el.play()
primeStart(s) == playEl(seekStart(pauseEl(s)))

\* el.pause(); el.currentTime = 0
primeEnd(s) == seekStart(pauseEl(s))

\* ------------------------------------------------------------ probes
\* One record per run of the probe effect whose callbacks can still run:
\*   kind       "image" | "video"
\*   el         the element the video priming sequence holds: the incoming
\*              layer's, the shown layer's (after a hand-over), or one that
\*              left the document ("detached"); "none" for an image
\*   pc         image: loading, frames (onload ran, the two animation
\*              frames are pending), done
\*              video: waitReady, awaitPlay, waitFrame
\*   cancelled  the effect's `cancelled` variable
\*   live       history: the incoming this probe was started for is still
\*              the engine's incoming
\*   abandoned  history, kept for a video: the engine was reset while this
\*              probe was live and its incoming was not ready
\*   fb         the fallback timer
\*   t          the timer of waitVideoReady / waitFirstVideoFrame
\* The priming sequence of an element that has left the document (an
\* orphan) reaches nothing the engine reads, so its remaining steps commute
\* with every other step: its position is kept, its timers are not (their
\* callbacks are indistinguishable from a late media event), and its steps
\* are taken before any other step (see Turn).
detach(p) == [p EXCEPT !.el = "detached", !.t = Off]

newProbe(item) ==
    IF item.type = "image"
    THEN [kind |-> "image", el |-> "none", pc |-> "loading",
          cancelled |-> FALSE, live |-> TRUE, abandoned |-> FALSE,
          fb |-> timeoutMsOf(item), t |-> Off]
    ELSE [kind |-> "video", el |-> "incoming", pc |-> "waitReady",
          cancelled |-> FALSE, live |-> TRUE, abandoned |-> FALSE,
          fb |-> timeoutMsOf(item), t |-> timeoutMsOf(item)]

\* The probe effect's clean-up: cancelled = true; clearTimeout(fallback).
cleanupProbe(p) ==
    IF p.cancelled THEN p ELSE [p EXCEPT !.cancelled = TRUE, !.fb = Off]

\* A cancelled image probe that has nothing left to run is forgotten.
inert(p) == p.kind = "image" /\ p.cancelled /\ p.pc = "done"

\* markReady without the test of `cancelled`.
markReadyUnguarded(p, inc) ==
    IF inc # None /\ ~inc.ready THEN [inc EXCEPT !.ready = TRUE] ELSE inc

\* markReady of probe p applied to the state `inc` of incoming.
markReady(p, inc) ==
    IF p.cancelled THEN inc
    ELSE IF inc # None /\ ~inc.ready THEN [inc EXCEPT !.ready = TRUE]
    ELSE inc

\* ------------------------------------------------ staging an advance
\* scheduleNext that refuses to stage the position that is shown.
scheduleNextOther(nextI) ==
    IF safeLen = 0 THEN incoming
    ELSE IF incoming # None THEN incoming
    ELSE LET ni == ((nextI % safeLen) + safeLen) % safeLen
             it == itemAt(items, ni)
         IN  IF it = NoItem \/ ni = shownIdx THEN incoming
             ELSE [idx |-> ni, key |-> keyOf(it), ready |-> FALSE]

\* The value of incoming after scheduleNext(nextI).
scheduleNext(nextI) ==
    IF safeLen = 0 THEN incoming
    ELSE IF incoming # None THEN incoming
    ELSE LET ni == ((nextI % safeLen) + safeLen) % safeLen
             it == itemAt(items, ni)
         IN  IF it = NoItem THEN incoming
             ELSE [idx |-> ni, key |-> keyOf(it), ready |-> FALSE]

\* goNext without the step to the next position.
goNextStay ==
    IF safeLen = 0 THEN incoming
    ELSE scheduleNext(shownIdx)

goNext ==
    IF safeLen = 0 THEN incoming
    ELSE scheduleNext(nextIndex(shownIdx, safeLen))

\* handleVideoEnded that, instead of dropping a request that finds an
\* incoming pending, stages the entry after the pending one.
handleVideoEndedRestage ==
    LET ni == nextIndex(IF incoming # None THEN incoming.idx ELSE shownIdx,
                        safeLen)
        it == itemAt(items, ni)
    IN  IF ~playing \/ safeLen = 0 \/ it = NoItem THEN incoming
        ELSE [idx |-> ni, key |-> keyOf(it), ready |-> FALSE]

\* The value of incoming after handleVideoEnded().
handleVideoEnded ==
    IF ~playing THEN incoming
    ELSE IF incoming # None THEN incoming
    ELSE goNext

\* ------------------------------------------- dependency arrays
readyDep(inc) ==
    IF inc = None THEN "undefined" ELSE IF inc.ready THEN "true" ELSE "false"

keyDep(inc) == IF inc = None THEN NoKey ELSE inc.key

probeDeps(inc) == <<keyDep(inc)>>

\* The commit effect's dependencies without incoming?.ready.
commitDepsNoReady(shown, inc) ==
    <<inc.idx, shown.type = "video">>

commitDeps(shown, inc) ==
    <<readyDep(inc), inc.idx, shown.type = "video">>

\* The advance timer effect's dependencies without incoming?.key.
timerDepsNoIncoming(pl, shown, sec, len, si, inc) ==
    <<pl, shown.type = "image", sec, len, si>>

timerDeps(pl, shown, sec, len, si, inc) ==
    <<pl, shown.type = "image", sec, len, si, keyDep(inc)>>

\* The video play effect's dependencies without incoming?.ready.
videoDepsNoReady(pl, shown, inc) ==
    <<pl, shown.type = "video",
      IF shown # NoItem THEN keyOf(shown) ELSE NoKey>>

videoDeps(pl, shown, inc) ==
    <<pl, shown.type = "video",
      IF shown # NoItem THEN keyOf(shown) ELSE NoKey,
      readyDep(inc)>>

\* The guards of the advance timer effect without safeLen <= 1.
timerArmedAnyLen(pl, shown, len, inc) ==
    /\ pl /\ shown.type = "image"
    /\ len # 0
    /\ inc = None

\* The guards of the advance timer effect without the one on the shown
\* item's type.
timerArmedAlways(pl, shown, len, inc) ==
    pl /\ len > 1 /\ inc = None

\* The advance timer effect arms the timer (guards of its body).
timerArmed(pl, shown, len, inc) ==
    /\ pl /\ shown.type = "image"
    /\ len # 0 /\ len > 1
    /\ inc = None

\* ------------------------------------------------ the prefetch effect
\* The prefetch effect that preloads the shown item itself.
prefetchEffectShown(its, i) ==
    IF safeLenOf(its) = 0 THEN NoItem ELSE itemAt(its, shownIdxOf(its, i))

\* The body of the prefetch effect over the list `its` at idx = i: the item
\* handed to prefetchMedia, NoItem when it returns early or finds none
\* (items[order[nextI]] is undefined).  prefetchMedia starts a decode
\* (new Image()) or a HEAD request and registers nothing but an empty catch.
prefetchEffect(its, i) ==
    LET n == safeLenOf(its)
        nextI == nextIndex(shownIdxOf(its, i), n)
        ord == order(its)
    IN  IF n = 0 THEN NoItem
        ELSE IF nextI \in DOMAIN ord /\ ord[nextI] # Undefined
                /\ (ord[nextI] + 1) \in DOMAIN its
        THEN its[ord[nextI] + 1]
        ELSE NoItem

\* [shownIdx, safeLen, order, items]; order and items are the same arrays
\* as long as the list is.
prefetchDeps(its, i) == <<shownIdxOf(its, i), safeLenOf(its), its>>

\* ---------------------------------------------------- the render
\* What is true before the render that follows a callback: the elements,
\* probes and timers as the callback left them.
pre0 ==
    [shownVid |-> shownVid, incVid |-> incVid, probes |-> probes,
     commitT |-> commitT, advT |-> advT, dueRem |-> dueRem, playT |-> playT]

\* React matches the two keyed layers of the new render with the layers of
\* the previous one by key: the shown layer first, then the incoming layer.
\* A matched layer keeps its <video> element (same key inside); the element
\* of a layer that is not matched leaves the document.
shownSrc(newShown) ==
    IF newShown = NoItem THEN "fresh"
    ELSE IF shownItem # NoItem /\ keyOf(newShown) = shownKey THEN "shown"
    ELSE IF incoming # None /\ keyOf(newShown) = incoming.key THEN "incoming"
    ELSE "fresh"

incSrc(ss, inc) ==
    IF inc = None THEN "gone"
    ELSE IF incoming # None /\ inc.key = incoming.key /\ ss # "incoming"
    THEN "incoming"
    ELSE "fresh"

elOf(src, item, sv, iv) ==
    IF item.type # "video" THEN "none"
    ELSE IF src = "shown" THEN sv
    ELSE IF src = "incoming" THEN iv
    ELSE "paused"

\* The layer that holds, after the render, the element that was in layer
\* `role` before it; ss and is are the sources of the new layers.
roleAfter(role, ss, is, newShown, newInc) ==
    IF role \in {"none", "detached"} THEN role
    ELSE IF ss = role /\ newShown.type = "video" THEN "shown"
    ELSE IF is = role /\ newInc.type = "video" THEN "incoming"
    ELSE "detached"

\* The re-render of the Slideshow after a callback set playing = pl,
\* idx = i, incoming = inc, and the clean-ups and bodies of the effects
\* whose dependencies changed, in the order of their definition.
Render(pl, i, inc, pre) ==
    LET newShown == shownItemOf(items, i)
        newInc == IF inc = None THEN NoItem ELSE itemAt(items, inc.idx)
        gone == incoming # None /\ (inc = None \/ inc.key # incoming.key)
        probeRun == probeDeps(inc) # probeDeps(incoming)
        oldShown == shownItem
        commitRun == commitDeps(newShown, inc) # commitDeps(oldShown, incoming)
        timerRun == timerDeps(pl, newShown, intervalSec, safeLen,
                              shownIdxOf(items, i), inc)
                       # timerDeps(playing, oldShown, intervalSec, safeLen,
                                   shownIdx, incoming)
        videoRun == videoDeps(pl, newShown, inc) # videoDeps(playing, oldShown, incoming)
        ss == shownSrc(newShown)
        is == incSrc(ss, inc)
        sv0 == elOf(ss, newShown, pre.shownVid, pre.incVid)
        iv0 == elOf(is, newInc, pre.shownVid, pre.incVid)
        moved(p) == LET r == roleAfter(p.el, ss, is, newShown, newInc)
                    IN  IF r = "detached" THEN detach(p) ELSE [p EXCEPT !.el = r]
        ps0 == {[moved(p) EXCEPT !.live = p.live /\ ~gone] : p \in pre.probes}
        ps1 == IF probeRun THEN {cleanupProbe(p) : p \in ps0} ELSE ps0
        ps2 == IF probeRun /\ inc # None THEN ps1 \cup {newProbe(newInc)} ELSE ps1
        sv1 == IF commitRun /\ inc.ready /\ newShown.type = "video"
               THEN pauseEl(sv0) ELSE sv0
        sv2 == IF videoRun /\ newShown.type = "video" /\ (~pl \/ inc.ready)
               THEN pauseEl(sv1) ELSE sv1
        arm == timerArmed(pl, newShown, safeLen, inc)
    IN  /\ probes' = {p \in ps2 : ~inert(p)}
        /\ shownVid' = sv2
        /\ incVid' = iv0
        /\ commitT' = IF commitRun
                      THEN (IF inc.ready THEN HoldMs ELSE Off)
                      ELSE pre.commitT
        /\ advT' = IF timerRun THEN (IF arm THEN TickMs ELSE Off) ELSE pre.advT
        /\ dueRem' = IF timerRun
                     THEN (IF arm THEN intervalMsOf(intervalSec) ELSE 0)
                     ELSE pre.dueRem
        /\ playT' = IF videoRun
                    THEN (IF newShown.type = "video" /\ pl /\ ~inc.ready
                          THEN 0 ELSE Off)
                    ELSE pre.playT
        /\ sinceArmed' = IF timerRun /\ (arm \/ inc = None) THEN 0
                          ELSE sinceArmed

\* A callback that changes none of playing, idx and incoming: no dependency
\* of an effect changes and every layer keeps its element, so the render
\* leaves the elements, probes and timers as the callback left them.
Keep(pre) ==
    /\ probes' = {p \in pre.probes : ~inert(p)}
    /\ shownVid' = pre.shownVid
    /\ incVid' = pre.incVid
    /\ commitT' = pre.commitT
    /\ advT' = pre.advT
    /\ dueRem' = pre.dueRem
    /\ playT' = pre.playT
    /\ sinceArmed' = sinceArmed

\* Whose turn it is: the steps of orphans (priming sequences of detached
\* elements) first.
Turn(by) == by = "orphan" \/ \A p \in probes : p.el # "detached"

\* A callback of one engine: its state updates, then the render.
Update(act, by, req, pl, so, i, inc, pre) ==
    /\ Turn(by)
    /\ playing' = pl
    /\ settingsOpen' = so
    /\ idx' = i
    /\ incoming' = inc
    /\ UNCHANGED <<items, loaded, intervalSec, partVars>>
    /\ IF pl = playing /\ i = idx /\ inc = incoming
       THEN Keep(pre)
       ELSE Render(pl, i, inc, pre)
    /\ sinceStaged' = IF inc = None \/ incoming = None THEN 0 ELSE sinceStaged
    /\ sinceReady' = IF ~inc.ready \/ ~incoming.ready THEN 0 ELSE sinceReady
    /\ last' = [act |-> act, by |-> by, req |-> req,
                paused |-> (act = "DoubleClickCapture" /\ ~playing),
                opened |-> (act = "DoubleClickCapture" /\ ~settingsOpen),
                prefetch |-> IF prefetchDeps(items, i) # prefetchDeps(items, idx)
                             THEN prefetchEffect(items, i) ELSE NoItem]

\* The new list / interval handed to the mounted engine, which is kept.
bumpEngineKeepState(act, req, its, sec) ==
    /\ items' = its
    /\ intervalSec' = sec
    /\ UNCHANGED <<playing, settingsOpen, idx, incoming, mediaVars, timerVars,
                   clockVars, partVars>>
    /\ last' = [act |-> act, by |-> "app", req |-> req, paused |-> FALSE,
                 opened |-> FALSE, prefetch |-> NoItem]

\* bumpEngine(): the Slideshow's React key changes, so the mounted engine is
\* unmounted (every effect's clean-up runs, its elements leave the document)
\* and a new one is mounted with useState(0) / useState(null) over the list
\* `its` and the interval `sec`; the mount runs every effect body once.
bumpEngine(act, req, its, sec) ==
    LET shown == shownItemOf(its, 0)
        ps == {[(IF p.el = "none" THEN cleanupProbe(p)
                  ELSE detach(cleanupProbe(p)))
                 EXCEPT !.live = FALSE,
                        !.abandoned = \/ p.abandoned
                                      \/ /\ p.kind = "video" /\ p.live
                                         /\ ~incoming.ready] :
               p \in probes}
        arm == timerArmed(playing, shown, safeLenOf(its), None)
    IN  /\ Turn("app")
        /\ items' = its
        /\ intervalSec' = sec
        /\ UNCHANGED <<playing, settingsOpen, partVars>>
        /\ idx' = 0
        /\ incoming' = None
        /\ probes' = {p \in ps : ~inert(p)}
        /\ shownVid' = IF shown.type = "video" THEN "paused" ELSE "none"
        /\ incVid' = "none"
        /\ commitT' = Off
        /\ advT' = IF arm THEN TickMs ELSE Off
        /\ dueRem' = IF arm THEN intervalMsOf(sec) ELSE 0
        /\ playT' = IF shown.type = "video" /\ playing THEN 0 ELSE Off
        /\ sinceStaged' = 0
        /\ sinceReady' = 0
        /\ sinceArmed' = 0
        /\ last' = [act |-> act, by |-> "app", req |-> req, paused |-> FALSE,
                     opened |-> FALSE, prefetch |-> prefetchEffect(its, 0)]

\* ------------------------------------------------------- App
\* loadMediaItems().then(list => { setItems(list); bumpEngine() })
Load ==
    /\ ~loaded
    /\ loaded' = TRUE
    /\ \E kinds \in MediaLists :
          bumpEngine("Load", <<>>, toItems(kinds), intervalSec)

\* SettingsSheet: onIntervalSec(v) => { setIntervalSec(v); bumpEngine() }
\* An interval slider that only stores the value, without remounting.
SetIntervalSecKeepState ==
    /\ settingsOpen
    /\ UNCHANGED loaded
    /\ Turn("app")
    /\ \E v \in IntervalChoices \ {intervalSec} :
          bumpEngineKeepState("SetIntervalSec", <<>>, items, v)

SetIntervalSec ==
    /\ settingsOpen
    /\ UNCHANGED loaded
    /\ \E v \in IntervalChoices \ {intervalSec} :
          bumpEngine("SetIntervalSec", <<>>, items, v)

\* A transition picker that remounts the engine as the interval slider does.
SetTransitionModeResets ==
    /\ settingsOpen
    /\ UNCHANGED loaded
    /\ bumpEngine("SetTransitionMode", <<>>, items, intervalSec)

\* SettingsSheet: the transition picker, onTransitionMode={setTransitionMode}.
\* App re-renders the Slideshow with the new transitionMode prop and the same
\* key; the prop is read by the render only (the motion of the layers) and
\* is in no effect's dependency array, so no effect of the engine runs.
SetTransitionMode ==
    /\ settingsOpen
    /\ Update("SetTransitionMode", "app", <<>>, playing, settingsOpen,
              idx, incoming, pre0)

\* A Pause button that also drops the staged incoming.
TogglePlayingCancels ==
    /\ settingsOpen
    /\ Update("TogglePlaying", "app", <<>>, ~playing, settingsOpen,
              idx, IF playing THEN None ELSE incoming, pre0)

\* SettingsSheet: the Pause / Play button, onPlaying(!playing)
TogglePlaying ==
    /\ settingsOpen
    /\ Update("TogglePlaying", "app", <<>>, ~playing, settingsOpen,
              idx, incoming, pre0)

\* SettingsSheet: onClose
CloseSettings ==
    /\ settingsOpen
    /\ Update("CloseSettings", "app", <<>>, playing, FALSE, idx, incoming, pre0)

\* The capture surface's handler with event.stopPropagation(): the double
\* click does not reach App's onDoubleClick.
DoubleClickCaptureStopped ==
    /\ shownItem # NoItem
    /\ Update("DoubleClickCapture", "app", <<TRUE>>, TRUE, settingsOpen,
              idx, incoming, pre0)

\* A double click that also asks for the next entry.
DoubleClickCaptureAdvance ==
    /\ shownItem # NoItem
    /\ Update("DoubleClickCapture", "app", <<TRUE>>, TRUE, TRUE,
              idx, goNext, pre0)

\* Double click on the slideshow-capture surface: onPlayingChange(true);
\* the event then bubbles to App's onDoubleClick={openSettings}.
DoubleClickCapture ==
    /\ shownItem # NoItem
    /\ Update("DoubleClickCapture", "app", <<TRUE>>, TRUE, TRUE,
              idx, incoming, pre0)

\* Double click on App's surface where no capture surface covers it (the
\* Slideshow returns null): openSettings.
DoubleClickMain ==
    /\ shownItem = NoItem
    /\ Update("DoubleClickMain", "app", <<>>, playing, TRUE, idx, incoming, pre0)

\* ------------------------------------------------- engine callbacks
\* A tick test that lets a whole tick more pass as due:
\* now + 16 + 6 >= dueRef.current.
tickSlackWide == TickMs + TickSlackMs

\* now + 6 >= dueRef.current
tickSlack == TickSlackMs

\* tick of the advance timer effect.
tick ==
    /\ advT = 0
    /\ LET fire == incoming = None /\ dueRem <= tickSlack
           inc == IF fire THEN goNext ELSE incoming
           pre == [pre0 EXCEPT !.advT = TickMs,
                               !.dueRem = IF fire THEN intervalMsOf(intervalSec)
                                          ELSE dueRem]
       IN  Update("tick", "engine", <<>>, playing, settingsOpen, idx, inc, pre)

\* The commit effect's 560 ms timer: setIdx(incoming.idx); setIncoming(null).
commit ==
    /\ commitT = 0
    /\ Update("commit", "engine", <<>>, playing, settingsOpen,
              incoming.idx, None, [pre0 EXCEPT !.commitT = Off])

\* The video play effect's setTimeout(..., 0): el.play().
playTimer ==
    /\ playT = 0
    /\ Update("playTimer", "engine", <<>>, playing, settingsOpen, idx, incoming,
              [pre0 EXCEPT !.playT = Off, !.shownVid = playEl(shownVid)])

\* The shown video reaches its end: onEnded={handleVideoEnded}.
videoEnded ==
    /\ shownVid = "playing"
    /\ Update("videoEnded", "engine", <<>>, playing, settingsOpen, idx,
              handleVideoEnded, [pre0 EXCEPT !.shownVid = "ended"])

\* --------------------------------------------------- probe callbacks
by(p) ==
    IF p.el = "detached" THEN "orphan"
    ELSE IF p.live THEN "live"
    ELSE "stale"

replace(p, q) == (probes \ {p}) \cup {q}

ProbeStep(act, p, ps, inc, sv, iv) ==
    Update(act, by(p), <<>>, playing, settingsOpen, idx, inc,
           [pre0 EXCEPT !.probes = ps, !.shownVid = sv, !.incVid = iv])

\* The element state after the priming sequence of p applied f to its el.
svAfter(p, f) == IF p.el = "shown" THEN f ELSE shownVid
ivAfter(p, f) == IF p.el = "incoming" THEN f ELSE incVid
elState(p) ==
    IF p.el = "shown" THEN shownVid
    ELSE IF p.el = "incoming" THEN incVid
    ELSE "none"

\* setTimeout(markReady, timeoutMs)
fallback(p) ==
    /\ p.fb = 0
    /\ ProbeStep("fallback", p, replace(p, [p EXCEPT !.fb = Off]),
                 markReady(p, incoming), shownVid, incVid)

\* img.onload: requestAnimationFrame(() => requestAnimationFrame(markReady))
imgLoad(p) ==
    /\ p.kind = "image" /\ p.pc = "loading"
    /\ ProbeStep("imgLoad", p, replace(p, [p EXCEPT !.pc = "frames"]),
                 incoming, shownVid, incVid)

\* The second of the two animation frames calls markReady (the first one
\* only requests the second).
imgFrames(p) ==
    /\ p.kind = "image" /\ p.pc = "frames"
    /\ ProbeStep("imgFrames", p, replace(p, [p EXCEPT !.pc = "done"]),
                 markReady(p, incoming), shownVid, incVid)

\* img.onerror = markReady
imgError(p) ==
    /\ p.kind = "image" /\ p.pc = "loading"
    /\ ProbeStep("imgError", p, replace(p, [p EXCEPT !.pc = "done"]),
                 markReady(p, incoming), shownVid, incVid)

\* waitVideoReady resolves; the priming sequence goes on to
\* el.pause(); el.currentTime = 0; el.play() and awaits the play promise.
afterVideoReady(act, p) ==
    ProbeStep(act, p, replace(p, [p EXCEPT !.pc = "awaitPlay", !.t = Off]),
              incoming, svAfter(p, primeStart(elState(p))),
              ivAfter(p, primeStart(elState(p))))

\* loadeddata / canplay on the element
videoReadyEvent(p) ==
    /\ p.kind = "video" /\ p.pc = "waitReady"
    /\ afterVideoReady("videoReadyEvent", p)

\* The error event with a handler that gives the probe up: no priming, no
\* markReady; the fallback timer is left to run.
videoErrorGivesUp(p) ==
    /\ p.kind = "video" /\ p.pc = "waitReady"
    /\ ProbeStep("videoError", p,
                 replace(p, [p EXCEPT !.kind = "image", !.el = "none",
                                      !.pc = "done", !.t = Off]),
                 incoming, shownVid, incVid)

\* error on the element: waitVideoReady listens to it with the same
\* handler as to loadeddata and canplay.
videoError(p) ==
    /\ p.kind = "video" /\ p.pc = "waitReady"
    /\ afterVideoReady("videoError", p)

\* waitVideoReady's own timeout; it was armed after the fallback timer with
\* the same delay, so it fires after it.
videoReadyTimeout(p) ==
    /\ p.kind = "video" /\ p.pc = "waitReady"
    /\ p.t = 0 /\ p.fb # 0
    /\ afterVideoReady("videoReadyTimeout", p)

\* The play promise settles (fulfilled, or rejected and caught):
\* waitFirstVideoFrame(el, 350) starts.
playSettled(p) ==
    /\ p.kind = "video" /\ p.pc = "awaitPlay"
    /\ ProbeStep("playSettled", p,
                 replace(p, [p EXCEPT !.pc = "waitFrame",
                                      !.t = IF p.el = "detached" THEN Off
                                            ELSE FirstFrameMs]),
                 incoming, shownVid, incVid)

\* waitFirstVideoFrame resolves; el.pause(); el.currentTime = 0;
\* if (!cancelled) markReady(); finally clearTimeout(fallback).
afterFirstFrame(act, p) ==
    ProbeStep(act, p, probes \ {p},
              IF ~p.cancelled THEN markReady(p, incoming) ELSE incoming,
              svAfter(p, primeEnd(elState(p))),
              ivAfter(p, primeEnd(elState(p))))

\* A step of the priming sequence outside its inner try blocks throws:
\* el.play() once waitVideoReady has resolved (pause() and currentTime = 0
\* have run by then), or waitFirstVideoFrame once the play promise has
\* settled.  catch { if (!cancelled) markReady() }
\* finally { clearTimeout(fallback) }
primingThrows(p) ==
    /\ p.kind = "video" /\ p.pc \in {"waitReady", "awaitPlay"}
    /\ LET el == IF p.pc = "waitReady" THEN primeEnd(elState(p))
                 ELSE elState(p)
       IN  ProbeStep("primingThrows", p, probes \ {p},
                     IF ~p.cancelled THEN markReady(p, incoming) ELSE incoming,
                     svAfter(p, el), ivAfter(p, el))

\* requestVideoFrameCallback / timeupdate / playing
firstFrame(p) ==
    /\ p.kind = "video" /\ p.pc = "waitFrame"
    /\ afterFirstFrame("firstFrame", p)

firstFrameTimeout(p) ==
    /\ p.kind = "video" /\ p.pc = "waitFrame"
    /\ p.t = 0
    /\ afterFirstFrame("firstFrameTimeout", p)

\* ------------------------------------------------------------- time
ClockCap == VideoTimeoutMs + FirstFrameMs + 1
ArmedCap == intervalMsOf(2 * InitialIntervalSec) + TickMs + 1

\* The ticks of the advance timer that find now + 6 < dueRef only re-arm
\* the next tick 16 ms later; time runs over them.  fireIn is the time to the
\* first tick that finds now + 6 >= dueRef.
CeilDiv(a, b) == IF a <= 0 THEN 0 ELSE (a + b - 1) \div b

fireIn ==
    IF advT = Off THEN Off
    ELSE advT + TickMs * CeilDiv(dueRem - tickSlack - advT, TickMs)

\* The tick timer d ms later.
tickAfter(d) ==
    IF advT = Off THEN Off
    ELSE IF d <= advT THEN advT - d
    ELSE (TickMs - ((d - advT) % TickMs)) % TickMs

armed ==
    ({commitT, fireIn, playT} \cup {p.fb : p \in probes} \cup {p.t : p \in probes})
        \ {Off}

\* Time moves to the next timer that is due.  (An incoming that waits for
\* its readiness always has its fallback timer armed.)
delays ==
    LET a == armed
    IN  {d \in a : \A e \in a : d <= e}

run(t, d) == IF t = Off THEN Off ELSE t - d

Elapse ==
    /\ Turn("time")
    /\ \E d \in delays :
        /\ d > 0
        /\ commitT' = run(commitT, d)
        /\ advT' = tickAfter(d)
        /\ playT' = run(playT, d)
        /\ dueRem' = IF advT # Off THEN dueRem - d ELSE dueRem
        /\ probes' = {[p EXCEPT !.fb = run(p.fb, d), !.t = run(p.t, d)] : p \in probes}
        /\ sinceStaged' = IF incoming # None /\ ~incoming.ready
                          THEN Min(sinceStaged + d, ClockCap) ELSE sinceStaged
        /\ sinceReady' = IF incoming.ready
                         THEN Min(sinceReady + d, HoldMs + 1) ELSE sinceReady
        /\ sinceArmed' = IF advT # Off
                         THEN Min(sinceArmed + d, ArmedCap) ELSE sinceArmed
        /\ last' = [act |-> "Elapse", by |-> "time", req |-> <<>>,
                     paused |-> FALSE, opened |-> FALSE, prefetch |-> NoItem]
        /\ UNCHANGED <<appVars, engineVars, shownVid, incVid, partVars>>

\* ----------------------------------------------------------- prefetch
\* The prefetch just issued fails (the decode of the image, the HEAD
\* request of the video).  Nothing of the engine listens: the Image has no
\* handler and the fetch has .catch(() => {}).  As the failure runs no code
\* of the engine, when it comes makes no difference; it is taken right
\* after the request.
prefetchFails ==
    /\ last.prefetch # NoItem
    /\ last' = [act |-> "prefetchFails", by |-> "net", req |-> <<>>,
                 paused |-> FALSE, opened |-> FALSE, prefetch |-> NoItem]
    /\ UNCHANGED <<appVars, engineVars, timerVars, mediaVars, clockVars,
                   partVars>>

\* ----------------------------------------------------- specification
\* App and its Slideshow after the first render, before the list is loaded.
InitApp ==
    /\ items = <<>>
    /\ loaded = FALSE
    /\ playing = TRUE
    /\ intervalSec = 2 * InitialIntervalSec
    /\ settingsOpen = FALSE
    /\ idx = 0
    /\ incoming = None
    /\ probes = {}
    /\ commitT = Off /\ advT = Off /\ dueRem = 0 /\ playT = Off
    /\ shownVid = "none" /\ incVid = "none"
    /\ sinceStaged = 0 /\ sinceReady = 0 /\ sinceArmed = 0
    /\ last = [act |-> "Init", by |-> "app", req |-> <<>>, paused |-> FALSE,
               opened |-> FALSE, prefetch |-> NoItem]

Init ==
    /\ InitApp
    /\ props = <<>>
    /\ view = <<>>

Next ==
    \/ Load
    \/ SetIntervalSec
    \/ SetTransitionMode
    \/ TogglePlaying
    \/ CloseSettings
    \/ DoubleClickCapture
    \/ DoubleClickMain
    \/ tick
    \/ commit
    \/ playTimer
    \/ videoEnded
    \/ \E p \in probes : fallback(p)
    \/ \E p \in probes : imgLoad(p)
    \/ \E p \in probes : imgFrames(p)
    \/ \E p \in probes : imgError(p)
    \/ \E p \in probes : videoReadyEvent(p)
    \/ \E p \in probes : videoError(p)
    \/ \E p \in probes : primingThrows(p)
    \/ \E p \in probes : videoReadyTimeout(p)
    \/ \E p \in probes : playSettled(p)
    \/ \E p \in probes : firstFrame(p)
    \/ \E p \in probes : firstFrameTimeout(p)
    \/ prefetchFails
    \/ Elapse

Spec == Init /\ [][Next]_vars

\* ------------------------------------- the advance timer effect alone
\* The body of the advance timer effect as a function of what it reads:
\* playing, the shown item's type, the length of the list, whether an
\* incoming exists, and intervalSec as any parent may pass it (a number on
\* the 0.5 s grid, below the slider's minimum, zero and negative included).
TimerEffectProps ==
    [playing : BOOLEAN, shownType : {"image", "video"}, len : 0..MaxLen,
     staged : BOOLEAN, intervalSec : (0 - SliderMax)..SliderMax]

advanceTimerEffect(pr) ==
    LET shown == [type |-> pr.shownType, src |-> 1]
        inc == IF pr.staged
               THEN [idx |-> 0, key |-> keyOf(shown), ready |-> FALSE]
               ELSE None
    IN  IF timerArmed(pr.playing, shown, pr.len, inc)
        THEN [ran |-> TRUE, armed |-> TRUE,
              intervalMs |-> intervalMsOf(pr.intervalSec)]
        ELSE [ran |-> TRUE, armed |-> FALSE, intervalMs |-> 0]

InitTimerEffect ==
    /\ InitApp
    /\ props \in TimerEffectProps
    /\ view = [ran |-> FALSE, armed |-> FALSE, intervalMs |-> 0]

runTimerEffect ==
    /\ ~view.ran
    /\ view' = advanceTimerEffect(props)
    /\ UNCHANGED <<appSpecVars, props>>

SpecTimerEffect == InitTimerEffect /\ [][runTimerEffect]_vars

\* ------------------------------------------- the order's useMemo alone
\* The Slideshow under any parent.  props.list is the items array: its
\* identity (id, a new array gets the other one) and its length n.
\* view is the memo cell of `order`: the value, the dependencies it was
\* computed for, whether the last render ran the factory, and what the last
\* render was caused by.
TransitionModes == {"crossfade", "slide", "flip", "zoom", "pan"}

Seeds == (0 - MaxSeed)..MaxSeed

OrderProps ==
    [list : [id : {0}, n : 0..MaxOrderLen], shuffle : BOOLEAN, shuffleSeed : Seeds,
     playing : BOOLEAN, intervalSec : IntervalChoices,
     transitionMode : TransitionModes]

\* The dependencies with `playing` among them.
orderDepsWithPlaying(pr) == <<pr.list, pr.shuffle, pr.shuffleSeed, pr.playing>>

\* [items, shuffle, shuffleSeed]
orderDeps(pr) == <<pr.list, pr.shuffle, pr.shuffleSeed>>

\* useMemo on the first render.
mountOrder(pr) ==
    [order |-> orderOf(pr.list.n, pr.shuffle, pr.shuffleSeed),
     deps |-> orderDeps(pr), recomputed |-> TRUE, cause |-> "mount"]

\* useMemo on a later render, caused by `cause`.
renderOrder(pr, cause) ==
    IF orderDeps(pr) = view.deps
    THEN [view EXCEPT !.recomputed = FALSE, !.cause = cause]
    ELSE [order |-> orderOf(pr.list.n, pr.shuffle, pr.shuffleSeed),
          deps |-> orderDeps(pr), recomputed |-> TRUE, cause |-> cause]

rerenderWith(pr, cause) ==
    /\ props' = pr
    /\ view' = renderOrder(pr, cause)
    /\ UNCHANGED appSpecVars

InitOrder ==
    /\ InitApp
    /\ props \in OrderProps
    /\ view = mountOrder(props)

\* The parent passes a new items array.
newItems ==
    \E n \in 0..MaxOrderLen :
        rerenderWith([props EXCEPT !.list = [id |-> 1 - props.list.id, n |-> n]],
                     "items")

newShuffle ==
    rerenderWith([props EXCEPT !.shuffle = ~props.shuffle], "shuffle")

newShuffleSeed ==
    \E v \in Seeds \ {props.shuffleSeed} :
        rerenderWith([props EXCEPT !.shuffleSeed = v], "shuffleSeed")

newPlaying ==
    rerenderWith([props EXCEPT !.playing = ~props.playing], "playing")

newIntervalSec ==
    \E v \in IntervalChoices \ {props.intervalSec} :
        rerenderWith([props EXCEPT !.intervalSec = v], "intervalSec")

newTransitionMode ==
    \E v \in TransitionModes \ {props.transitionMode} :
        rerenderWith([props EXCEPT !.transitionMode = v], "transitionMode")

\* setIdx / setIncoming: the engine's own state changed (the shown
\* position, incoming, its readiness flag).
stateChange ==
    rerenderWith(props, "state")

NextOrder ==
    \/ newItems
    \/ newShuffle
    \/ newShuffleSeed
    \/ newPlaying
    \/ newIntervalSec
    \/ newTransitionMode
    \/ stateChange

SpecOrder == InitOrder /\ [][NextOrder]_vars

\* ------------------------------------------- the two layers' motion
\* Scales are in hundredths (1.03 is 103); the other values are the
\* source's numbers.
\* getMotionTriplet with kenBurns applied to videos too.
getMotionTripletAnyKind(mode, isImage, kenBurns) ==
    IF mode = "slide"
    THEN [initial |-> [opacity |-> 0, x |-> 60],
          animate |-> [opacity |-> 1, x |-> 0],
          exit |-> [opacity |-> 0, x |-> 0 - 60]]
    ELSE IF mode = "flip"
    THEN [initial |-> [opacity |-> 0, rotateY |-> 0 - 70, x |-> 40,
                       transformPerspective |-> 1200],
          animate |-> [opacity |-> 1, rotateY |-> 0, x |-> 0,
                       transformPerspective |-> 1200],
          exit |-> [opacity |-> 0, rotateY |-> 70, x |-> 0 - 40,
                    transformPerspective |-> 1200]]
    ELSE IF mode = "zoom"
    THEN [initial |-> [opacity |-> 0, scale |-> 97],
          animate |-> [opacity |-> 1, scale |-> 100],
          exit |-> [opacity |-> 0, scale |-> 103]]
    ELSE IF mode = "pan"
    THEN [initial |-> [opacity |-> 0, x |-> 24],
          animate |-> [opacity |-> 1, x |-> 0],
          exit |-> [opacity |-> 0, x |-> 0 - 24]]
    ELSE [initial |-> [opacity |-> 0, scale |-> IF kenBurns THEN 103 ELSE 100],
          animate |-> [opacity |-> 1, scale |-> 100],
          exit |-> [opacity |-> 0, scale |-> IF kenBurns THEN 101 ELSE 100]]

getMotionTriplet(mode, isImage, kenBurns) ==
    IF mode = "slide"
    THEN [initial |-> [opacity |-> 0, x |-> 60],
          animate |-> [opacity |-> 1, x |-> 0],
          exit |-> [opacity |-> 0, x |-> 0 - 60]]
    ELSE IF mode = "flip"
    THEN [initial |-> [opacity |-> 0, rotateY |-> 0 - 70, x |-> 40,
                       transformPerspective |-> 1200],
          animate |-> [opacity |-> 1, rotateY |-> 0, x |-> 0,
                       transformPerspective |-> 1200],
          exit |-> [opacity |-> 0, rotateY |-> 70, x |-> 0 - 40,
                    transformPerspective |-> 1200]]
    ELSE IF mode = "zoom"
    THEN [initial |-> [opacity |-> 0, scale |-> 97],
          animate |-> [opacity |-> 1, scale |-> 100],
          exit |-> [opacity |-> 0, scale |-> 103]]
    ELSE IF mode = "pan"
    THEN [initial |-> [opacity |-> 0, x |-> 24],
          animate |-> [opacity |-> 1, x |-> 0],
          exit |-> [opacity |-> 0, x |-> 0 - 24]]
    ELSE [initial |-> [opacity |-> 0,
                       scale |-> IF isImage /\ kenBurns THEN 103 ELSE 100],
          animate |-> [opacity |-> 1, scale |-> 100],
          exit |-> [opacity |-> 0,
                    scale |-> IF isImage /\ kenBurns THEN 101 ELSE 100]]

\* The incoming layer shown from the start: opacity 1 whatever the flag.
incomingLayerShown(triplet, ready) ==
    [opacity |-> 1, initial |-> triplet.initial,
     animate |-> IF ready THEN triplet.animate ELSE triplet.initial]

\* The motion.div of the incoming layer: style.opacity, initial, animate.
incomingLayer(triplet, ready) ==
    [opacity |-> IF ready THEN 1 ELSE 0, initial |-> triplet.initial,
     animate |-> IF ready THEN triplet.animate ELSE triplet.initial]

\* The motion.div of the shown layer: initial, animate.
shownLayer(triplet, ready) ==
    [initial |-> triplet.animate,
     animate |-> IF ready THEN triplet.exit ELSE triplet.animate]

NoLayer == [opacity |-> 0]

\* What the render reads for the two layers: the mode, kenBurns, the type
\* of the shown item, the type of the incoming item ("none" without an
\* incoming) and its readiness flag.
MotionProps ==
    {pr \in [transitionMode : TransitionModes, kenBurns : BOOLEAN,
             shownType : {"image", "video"},
             incomingType : {"none", "image", "video"}, ready : BOOLEAN] :
        pr.ready => pr.incomingType # "none"}

renderMotion(pr) ==
    LET shownTriplet == getMotionTriplet(pr.transitionMode,
                                         pr.shownType = "image", pr.kenBurns)
        incomingTriplet == getMotionTriplet(pr.transitionMode,
                                            pr.incomingType = "image", pr.kenBurns)
    IN  [rendered |-> TRUE,
         shownTriplet |-> shownTriplet,
         shown |-> shownLayer(shownTriplet, pr.ready),
         incoming |-> IF pr.incomingType = "none" THEN NoLayer
                      ELSE incomingLayer(incomingTriplet, pr.ready)]

InitMotion ==
    /\ InitApp
    /\ props \in MotionProps
    /\ view = [rendered |-> FALSE]

renderLayers ==
    /\ ~view.rendered
    /\ view' = renderMotion(props)
    /\ UNCHANGED <<appSpecVars, props>>

SpecMotion == InitMotion /\ [][renderLayers]_vars

\* ------------------------------------------------------------ claims
\* C1: at most one incoming exists at any instant: a stage request (a tick
\* of the advance timer or the shown video's ended event) that arrives while
\* incoming is non-null leaves incoming, its readiness flag and the shown
\* position unchanged, and no step replaces a pending incoming by another
\* one (a pending incoming only gets its flag set or goes back to None).
StageRequestDropped ==
    [][/\ (last'.act \in {"tick", "videoEnded"} /\ incoming # None)
           => (incoming' = incoming /\ idx' = idx)
       /\ (incoming # None /\ incoming' # None)
           => (incoming'.idx = incoming.idx /\ incoming'.key = incoming.key)]_vars

\* C1's case: the shown video ended while an incoming staged earlier was
\* still pending.
StageRequestWhilePending ==
    last.act = "videoEnded" /\ incoming # None /\ sinceStaged > 0

\* C2: the committed shown positions go p, (p+1) mod L, (p+2) mod L, ...:
\* every commit changes the shown position from s to exactly (s+1) mod L,
\* and while an incoming exists its position is (shown position + 1) mod L.
CommitsInOrder ==
    [][/\ last'.act = "commit" => shownIdx' = (shownIdx + 1) % safeLen
       /\ incoming' # None => incoming'.idx = (shownIdx' + 1) % safeLen']_vars

\* C2's case: a commit has wrapped from the last position of a list of two
\* entries to position 0.
CommitWrapped ==
    last.act = "commit" /\ safeLen = 2 /\ shownIdx = 0

\* C3 as stated: a staged incoming is destroyed (set to None) by its commit
\* and by nothing else, so that each staged incoming gets exactly one
\* commit, never zero.
IncomingEndsOnlyByCommit ==
    [][(incoming # None /\ incoming' = None) => last'.act = "commit"]_vars

\* C3, amended: unless the engine is reset first (the list is loaded or the
\* interval is edited), a staged incoming gets exactly one commit: the
\* commit happens exactly 560 ms after the readiness flag was set (not
\* before, and the hold never lasts longer), it sets the shown position to
\* the incoming's position and incoming to None in one step, and only a
\* commit or a reset destroys an incoming.
CommitAfterHold ==
    [][/\ last'.act = "commit"
           => /\ incoming.ready /\ sinceReady = HoldMs
              /\ idx' = incoming.idx /\ incoming' = None
       /\ incoming'.ready => sinceReady' <= HoldMs
       /\ (incoming # None /\ incoming' = None)
           => last'.act \in {"commit", "Load", "SetIntervalSec"}]_vars

\* C3's case: a commit has happened.
Committed ==
    last.act = "commit" /\ incoming = None /\ safeLen > 1 /\ shownIdx = 1

\* C4: a staged incoming is not left without its readiness flag for longer
\* than 2000 ms (image) or 4500 ms + 350 ms (video), whether or not its
\* load answers: while the flag is not set, the time since staging is within
\* the bound and the fallback timer of its probe is pending, due 2000 ms
\* (image) or 4500 ms (video) after the staging.
ReadyInTime ==
    (incoming # None /\ ~incoming.ready)
        => LET video == incomingItem.type = "video"
           IN  /\ sinceStaged <= (IF video THEN VideoTimeoutMs + FirstFrameMs
                                  ELSE ImageTimeoutMs)
               /\ \E p \in probes :
                      /\ ~p.cancelled /\ p.fb # Off
                      /\ sinceStaged + p.fb
                             = (IF video THEN VideoTimeoutMs ELSE ImageTimeoutMs)

\* C4's case: the load of a staged video never answered and the fallback
\* set the flag 4500 ms after the staging.
ReadyByFallback ==
    /\ last.act = "fallback" /\ incoming.ready
    /\ incomingItem.type = "video" /\ sinceStaged = VideoTimeoutMs
    /\ \E p \in probes : p.pc = "waitReady"

\* C5 as stated: the engine never halts: no reachable state is a dead end
\* in which playing is true, the list has at least two entries, no
\* transition is in flight and nothing is left that can trigger the next
\* advance (no timer armed, no media callback pending, the shown video not
\* playing).
NoDeadEnd ==
    ~(/\ playing /\ safeLen >= 2 /\ incoming = None
      /\ armed = {} /\ probes = {}
      /\ shownVid # "playing")

\* C6: readiness events are honoured only for the incoming they were
\* started for: the readiness flag of an incoming is set only by a callback
\* of the probe that was started for this incoming; a callback of a probe of
\* an earlier incoming or of a torn-down engine leaves incoming as it is.
ReadyOnlyByOwnProbe ==
    [][/\ (incoming'.ready /\ ~incoming.ready)
           => (incoming # None /\ last'.by = "live")
       /\ last'.by \in {"stale", "orphan"} => incoming' = incoming]_vars

\* C6's case: a callback of the probe of an earlier image that calls
\* markReady has run while a later incoming was waiting for its flag.
StaleMarkReady ==
    /\ last.by = "stale" /\ last.act \in {"imgFrames", "imgError"}
    /\ incoming # None /\ ~incoming.ready

\* C7: while the shown item is a video no advance timer is armed, and an
\* advance is staged from a shown video only by the ended event of that
\* video, received while it was playing, playing was true and no transition
\* was in flight.
VideoAdvancesOnlyOnEnded ==
    [][/\ shownItem'.type = "video" => advT' = Off
       /\ (shownItem.type = "video" /\ incoming = None /\ incoming' # None)
           => /\ last'.act = "videoEnded"
              /\ playing /\ shownVid = "playing" /\ shownVid' = "ended"]_vars

\* C7's case: the shown video of a list of two has ended and the next entry
\* was staged.
StagedByEnded ==
    /\ last.act = "videoEnded" /\ shownItem.type = "video" /\ safeLen = 2
    /\ incoming # None /\ ~incoming.ready /\ sinceStaged = 0
    /\ shownVid = "ended"

\* C8: the image advance timer is armed if and only if playing is true, the
\* shown item is an image, the list has more than one entry and no incoming
\* exists.
TimerArmedIff ==
    (advT # Off)
        <=> (playing /\ shownItem.type = "image" /\ safeLen > 1 /\ incoming = None)

\* C8's case: a commit has made an image the shown item and the timer is
\* armed again, for the full interval.
TimerRearmedAfterCommit ==
    /\ last.act = "commit" /\ shownItem.type = "image"
    /\ advT = TickMs /\ dueRem = intervalMsOf(intervalSec)

\* C9: a reset of the engine (the list is loaded, or the interval is
\* edited) leaves it at shown position 0 with incoming = None, whatever the
\* state before was; the timers of the old engine are cleared (no commit
\* pending, the other timers newly armed or off), every probe of the old
\* engine is cancelled with its fallback cleared, and no callback of a
\* cancelled probe changes the shown position or incoming.
ResetIsFull ==
    [][/\ last'.act \in {"Load", "SetIntervalSec"}
           => /\ idx' = 0 /\ incoming' = None
              /\ commitT' = Off /\ advT' \in {Off, TickMs} /\ playT' \in {Off, 0}
              /\ \A p \in probes' : p.cancelled /\ p.fb = Off
       /\ last'.by \in {"stale", "orphan"}
           => (idx' = idx /\ incoming' = incoming)]_vars

\* C9's case: the engine was reset while a transition was in flight; the
\* probe of the discarded incoming is left behind, cancelled.
ResetInFlight ==
    /\ last.act = "SetIntervalSec" /\ probes # {}
    /\ idx = 0 /\ incoming = None

\* C10: a double click on the capture surface while playing = false sends
\* exactly one request, onPlayingChange(true), and the step leaves the shown
\* position, incoming and its readiness flag unchanged.
DoubleClickResumes ==
    [][(last'.act = "DoubleClickCapture" /\ ~playing)
          => /\ last'.req = <<TRUE>> /\ playing'
             /\ idx' = idx /\ incoming' = incoming]_vars

\* C10's case: the double click came while playing was false, during the
\* 560 ms hold of a ready incoming.
DoubleClickDuringHold ==
    /\ last.act = "DoubleClickCapture" /\ last.paused
    /\ incoming.ready /\ sinceReady > 0 /\ sinceReady < HoldMs

\* C11 as stated: a double click on the capture surface requests
\* playing = true and leaves the settings sheet as it was, open or closed.
DoubleClickLeavesSettings ==
    [][last'.act = "DoubleClickCapture"
          => (last'.req = <<TRUE>> /\ settingsOpen' = settingsOpen)]_vars

\* C11, amended: a double click on the capture surface requests
\* playing = true and, because the event bubbles to the main surface, also
\* opens the settings sheet (the sheet is open after it, whatever it was
\* before); the gesture on the main surface alone only opens the sheet.
DoubleClickAlsoOpensSettings ==
    [][/\ last'.act = "DoubleClickCapture"
           => (last'.req = <<TRUE>> /\ playing' /\ settingsOpen')
       /\ last'.act = "DoubleClickMain"
           => (last'.req = <<>> /\ playing' = playing /\ settingsOpen')]_vars

\* C11's case: the double click came while the show was paused and the
\* settings sheet was closed.
WokenWithSheetClosed ==
    /\ last.act = "DoubleClickCapture" /\ last.paused /\ last.opened
    /\ playing /\ settingsOpen

\* C12: for every intervalSec a parent passes (on the 0.5 s grid, below the
\* minimum, zero and negative included) the period the advance timer effect
\* arms is intervalSec * 1000 ms when intervalSec >= 0.5 s and 500 ms
\* otherwise, never below 500 ms; the value is never rejected: whether the
\* timer is armed does not depend on it.
PeriodClamped ==
    view.ran
        => /\ view.armed
                <=> (/\ props.playing /\ props.shownType = "image"
                     /\ props.len > 1 /\ ~props.staged)
           /\ view.armed
                => /\ view.intervalMs
                       = (IF props.intervalSec >= SliderMin
                          THEN props.intervalSec * 500 ELSE MinIntervalMs)
                   /\ view.intervalMs >= MinIntervalMs

\* C12's case: the timer was armed for a negative intervalSec.
ArmedForNegative ==
    /\ view.ran /\ view.armed
    /\ props.intervalSec < 0 /\ view.intervalMs = MinIntervalMs

\* C13 as stated: an advance staged by the advance timer is staged no
\* earlier than the full period max(500, intervalSec * 1000) ms after the
\* timer was armed.
StagedAfterFullPeriod ==
    (last.act = "tick" /\ incoming # None)
        => sinceArmed >= Max(MinIntervalMs, intervalSec * 500)

\* C13, amended: an advance staged by the advance timer is staged no
\* earlier than 6 ms before the period has elapsed since the timer was
\* armed (the tick stages as soon as now + 6 >= due), and so never earlier
\* than 494 ms after the arming.
StagedWithinSlack ==
    (last.act = "tick" /\ incoming # None)
        => /\ sinceArmed >= Max(MinIntervalMs, intervalSec * 500) - TickSlackMs
           /\ sinceArmed >= MinIntervalMs - TickSlackMs

\* C13's case: with the period at 500 ms and the ticks 16 ms apart, the
\* advance was staged by the tick 496 ms after the arming.
StagedEarly ==
    /\ last.act = "tick" /\ incoming # None /\ intervalSec = SliderMin
    /\ sinceArmed < MinIntervalMs
    /\ sinceArmed >= MinIntervalMs - TickSlackMs

\* C14: for every list length N and every shuffle seed S the order is a
\* permutation of 0..N-1 (length N, every index exactly once), the identity
\* when shuffle is off, and a function of S and N alone when it is on (the
\* same S and N give the same order whatever was rendered before).
OrderIsPermutation ==
    LET n == props.list.n
        o == view.order
    IN  /\ DOMAIN o = 0..(n - 1)
        /\ \A v \in 0..(n - 1) : Cardinality({k \in 0..(n - 1) : o[k] = v}) = 1
        /\ ~props.shuffle => \A k \in 0..(n - 1) : o[k] = k
        /\ \A s \in Seeds :
              (props.shuffle /\ s = props.shuffleSeed) => o = orderOf(n, TRUE, s)

\* C15: the order is recomputed only when the list, the shuffle flag or
\* the shuffle seed changes: a render caused by a change of playing,
\* transitionMode, intervalSec or of the engine's own state (shown
\* position, incoming, readiness flag) does not run the factory and leaves
\* the order as it was.
OrderKeptAcrossRenders ==
    [][view'.cause \in {"playing", "transitionMode", "intervalSec", "state"}
          => (~view'.recomputed /\ view'.order = view.order)]_vars

\* C15's case: playing changed under a shuffled list of three and the
\* order, not the identity, was kept.
ShuffledOrderKept ==
    /\ view.cause = "playing" /\ ~view.recomputed
    /\ props.shuffle /\ props.list.n = 3
    /\ \E k \in 0..2 : view.order[k] # k

\* The table of the motion profiles as the specification gives it: enter,
\* settled, exit for a mode, with kb = "the item is an image and kenBurns
\* is on".
MotionTable(mode, kb) ==
    CASE mode = "crossfade" ->
            <<[opacity |-> 0, scale |-> IF kb THEN 103 ELSE 100],
              [opacity |-> 1, scale |-> 100],
              [opacity |-> 0, scale |-> IF kb THEN 101 ELSE 100]>>
      [] mode = "slide" ->
            <<[opacity |-> 0, x |-> 60], [opacity |-> 1, x |-> 0],
              [opacity |-> 0, x |-> 0 - 60]>>
      [] mode = "flip" ->
            <<[opacity |-> 0, rotateY |-> 0 - 70, x |-> 40,
               transformPerspective |-> 1200],
              [opacity |-> 1, rotateY |-> 0, x |-> 0,
               transformPerspective |-> 1200],
              [opacity |-> 0, rotateY |-> 70, x |-> 0 - 40,
               transformPerspective |-> 1200]>>
      [] mode = "zoom" ->
            <<[opacity |-> 0, scale |-> 97], [opacity |-> 1, scale |-> 100],
              [opacity |-> 0, scale |-> 103]>>
      [] mode = "pan" ->
            <<[opacity |-> 0, x |-> 24], [opacity |-> 1, x |-> 0],
              [opacity |-> 0, x |-> 0 - 24]>>

\* C16: for every mode, isImage and kenBurns, getMotionTriplet returns the
\* enter / settled / exit parameters of the table (opacity 0 / 1 / 0 in
\* every mode), and kenBurns changes the result only for crossfade with an
\* image.
TripletMatchesTable ==
    view.rendered
        => LET t == view.shownTriplet
               isImage == props.shownType = "image"
               row == MotionTable(props.transitionMode, isImage /\ props.kenBurns)
           IN  /\ <<t.initial, t.animate, t.exit>> = row
               /\ <<t.initial.opacity, t.animate.opacity, t.exit.opacity>>
                      = <<0, 1, 0>>
               /\ ~(props.transitionMode = "crossfade" /\ isImage)
                      => t = getMotionTriplet(props.transitionMode, isImage,
                                              ~props.kenBurns)

\* C16's case: a video was rendered in crossfade with kenBurns on, and its
\* scale stays at 1.
VideoWithoutKenBurns ==
    /\ view.rendered /\ props.transitionMode = "crossfade"
    /\ props.shownType = "video" /\ props.kenBurns
    /\ view.shownTriplet.initial.scale = 100

\* C17: with an empty list the engine renders nothing and never stages an
\* incoming, and with a list of exactly one image no advance timer is ever
\* armed and no incoming is ever staged, whatever playing, intervalSec and
\* the double clicks do; neither case has anything pending that could fail
\* (no probe, no hold).
StaticWithoutAdvance ==
    /\ safeLen = 0
         => /\ shownItem = NoItem /\ incoming = None
            /\ advT = Off /\ commitT = Off /\ playT = Off
            /\ \A p \in probes : p.cancelled
    /\ (safeLen = 1 /\ items[1].type = "image")
         => /\ shownItem = items[1] /\ incoming = None
            /\ advT = Off /\ commitT = Off /\ playT = Off
            /\ \A p \in probes : p.cancelled

\* C17's case: a list of one image, woken by a double click after a pause
\* and an interval edit; still no timer.
SingleImageWoken ==
    /\ safeLen = 1 /\ shownItem.type = "image"
    /\ last.act = "DoubleClickCapture" /\ last.paused
    /\ intervalSec = SliderMin /\ playing /\ advT = Off

\* C18: with a list of exactly one video, the video's ended event while
\* playing is true stages an incoming at position 0, the shown position
\* itself; that incoming gets its flag (its probe's fallback is pending
\* while it has not) and its commit (the hold is running once it has); the
\* commit leaves the engine idle at position 0 with a play command for the
\* video pending, and an idle engine that is playing always has the video
\* playing or about to be played: the video keeps repeating.
SingleVideoRepeats ==
    (safeLen = 1 /\ items[1].type = "video")
        => /\ shownIdx = 0 /\ shownItem = items[1]
           /\ (last.act = "videoEnded" /\ playing) => incoming # None
           /\ incoming # None
                => /\ incoming.idx = 0 /\ incoming.key = shownKey
                   /\ ~incoming.ready
                        => \E p \in probes : ~p.cancelled /\ p.fb # Off
                   /\ incoming.ready => commitT = HoldMs - sinceReady
           /\ last.act = "commit"
                => /\ idx = 0 /\ incoming = None
                   /\ playing => playT = 0
           /\ (incoming = None /\ playing)
                => (shownVid = "playing" \/ playT = 0)

\* C18's case: the single video ended, was staged again and committed; the
\* play command is pending.
SingleVideoCommitted ==
    /\ safeLen = 1 /\ shownItem.type = "video"
    /\ last.act = "commit" /\ playing /\ idx = 0 /\ incoming = None
    /\ playT = 0

\* C19: fail-open.  The error of the incoming image and an exception in
\* the priming of the incoming video set the readiness flag at once; the
\* error event of the incoming video lets the priming go on as a load
\* event does, with the fallback pending, so the flag follows; none of them
\* starts the probe again or changes which entry is incoming; and every
\* commit, of a failed entry as of a healthy one, comes when the hold of
\* 560 ms is over.
FailOpen ==
    [][/\ (/\ last'.act \in {"imgError", "primingThrows"} /\ last'.by = "live"
            /\ incoming # None /\ ~incoming.ready)
           => /\ incoming' = [incoming EXCEPT !.ready = TRUE]
              /\ idx' = idx
              /\ \A p \in probes' : p.kind = "video" => p \in probes
       /\ (last'.act = "videoError" /\ last'.by = "live" /\ ~incoming.ready)
           => /\ incoming' = incoming /\ idx' = idx
              /\ \E p \in probes' : /\ p.live /\ ~p.cancelled
                                     /\ p.pc = "awaitPlay" /\ p.fb # Off
              /\ Cardinality(probes') = Cardinality(probes)
       /\ last'.act = "commit"
           => (incoming.ready /\ sinceReady = HoldMs /\ idx' = incoming.idx)]_vars

\* C19's case: an exception in the priming of the incoming video has set
\* its flag, and the hold before its commit has started.
FlagSetByException ==
    /\ last.act = "primingThrows" /\ last.by = "live"
    /\ incomingItem.type = "video" /\ incoming.ready
    /\ sinceReady = 0 /\ commitT = HoldMs

\* The incoming layer as the render draws it in mode m (App passes
\* kenBurns={true}).
incomingDrawn(m) ==
    incomingLayer(getMotionTriplet(m, incomingItem.type = "image", TRUE),
                  incoming.ready)

playsShown ==
    \/ last'.act = "playTimer"
    \/ /\ last'.act \in {"videoReadyEvent", "videoError", "videoReadyTimeout"}
       /\ \E p \in probes : p.el = "shown" /\ p.pc = "waitReady" /\ p \notin probes'

primingStepOn(p) ==
    /\ p \notin probes'
    /\ \/ /\ last'.act \in {"videoReadyEvent", "videoError", "videoReadyTimeout",
                            "primingThrows"}
          /\ p.pc = "waitReady"
       \/ /\ last'.act \in {"firstFrame", "firstFrameTimeout"}
          /\ p.pc = "waitFrame"

\* C22 as stated: the readiness flag of a staged incoming goes from false
\* to true at most once and never back, and once the flag of an incoming
\* video has been set (by the timeout), no remaining step of its priming
\* sequence is applied to its video element, neither during the hold (the
\* element is the incoming layer's) nor after the commit (the element is the
\* shown layer's).
LoserSuppressed ==
    [][/\ (incoming.ready /\ incoming' # None) => incoming'.ready
       /\ \A p \in probes :
             (/\ p.kind = "video"
              /\ p.el = "shown" \/ (p.el = "incoming" /\ incoming.ready))
                 => ~primingStepOn(p)]_vars

\* C23 as stated: a probe abandoned before it resolved (the engine was
\* reset while its incoming was not ready) is cancelled with its fallback
\* timer released, and from then on it mutates nothing: no step of a probe
\* left behind changes the shown position, incoming or the readiness flag,
\* and the abandoned priming sequence of a video applies no further play,
\* pause or seek to its video element.
AbandonedProbeInert ==
    [][/\ (last'.act \in {"Load", "SetIntervalSec"} /\ ~incoming.ready)
           => \A p \in probes' : p.cancelled /\ ~p.live /\ p.fb = Off
       /\ last'.by \in {"stale", "orphan"}
           => (idx' = idx /\ incoming' = incoming)
       /\ \A p \in probes : p.abandoned => ~primingStepOn(p)]_vars

\* C24: when the readiness flag of the incoming is set while a video is
\* shown, the shown video is paused in that very step, and for the whole
\* hold, until the commit, it is not playing (paused, or ended), no play
\* command is pending for it and none is issued, whether playing is true or
\* false and however it is toggled.
ShownVideoPausedInHold ==
    /\ []((incoming.ready /\ shownItem.type = "video")
           => /\ shownVid \in {"paused", "ended"}
              /\ playT = Off
              /\ commitT = HoldMs - sinceReady)
    /\ [][(incoming.ready /\ shownItem.type = "video")
           => /\ last'.act # "playTimer"
              /\ shownVid' = "playing" => last'.act = "commit"]_vars

\* C24's case: the shown video was playing with playing = true when the
\* flag of the incoming image was set; it has just been paused.
PausedAtReadiness ==
    /\ last.act = "imgFrames" /\ incoming.ready /\ sinceReady = 0
    /\ shownItem.type = "video" /\ playing /\ shownVid = "paused"

\* C25 as stated: in Idle (no incoming) with a video shown, once the
\* pending callbacks have run (no play command pending, no probe left), the
\* shown video is playing when playing is true and is not playing (paused)
\* when playing is false; in particular no callback of an earlier probe has
\* left it paused while playing is true.
PlaybackFollowsPlaying ==
    (incoming = None /\ shownItem.type = "video" /\ playT = Off /\ probes = {})
        => IF playing THEN shownVid = "playing"
           ELSE shownVid \in {"paused", "ended"}

\* C26: whenever the shown position changes, that is when an engine is
\* mounted over a non-empty list and at every commit of a list of two or
\* more entries, the step hands to prefetchMedia the item at order position
\* (shown position + 1) mod L, the very item the next advance stages; a
\* step that leaves the position where it was (the commit of a one-entry
\* list among them) issues no prefetch; and the failure of a prefetch
\* changes nothing of the App, the engine, its timers, probes and elements.
PrefetchesNextItem ==
    [][LET moved == \/ last'.act \in {"Load", "SetIntervalSec"}
                    \/ shownIdx' # shownIdx
           n == (shownIdx' + 1) % safeLen'
       IN  /\ (moved /\ safeLen' > 0)
               => /\ last'.prefetch = itemAt(items', n)
                  /\ last'.prefetch # NoItem
                  /\ incoming' = None
                  /\ goNext' = [idx |-> n, key |-> keyOf(last'.prefetch),
                                ready |-> FALSE]
           /\ (last'.act = "commit" /\ safeLen > 1) => shownIdx' # shownIdx
           /\ ~moved => last'.prefetch = NoItem
           /\ last'.act = "prefetchFails"
               => UNCHANGED <<appVars, engineVars, timerVars, mediaVars>>]_vars

\* C26's case: a commit has moved a list of two entries to its last
\* position, and the first entry, which the next advance wraps to, was
\* prefetched.
PrefetchedAcrossWrap ==
    /\ last.act = "commit" /\ safeLen = 2 /\ shownIdx = 1
    /\ last.prefetch = items[1]

\* C27: a staged transition runs to its commit whatever happens to playing.
\* A step that changes playing while an incoming exists leaves incoming, the
\* shown position, the probe of the incoming and the hold timer as they
\* are; whether playing is true or false, an incoming without its flag has
\* its probe running, uncancelled, with the fallback due at the time fixed
\* at staging, and a ready incoming has its hold running, due 560 ms after
\* the flag was set; the commit comes at that time, once; and while playing
\* is false and no incoming exists, no timer of the engine is armed.
TransitionIgnoresPlaying ==
    /\ [](/\ (incoming # None /\ ~incoming.ready)
              => \E p \in probes :
                    /\ p.live /\ ~p.cancelled
                    /\ p.fb = (IF incomingItem.type = "video"
                               THEN VideoTimeoutMs ELSE ImageTimeoutMs)
                                  - sinceStaged
          /\ (incoming.ready => commitT = HoldMs - sinceReady)
          /\ (incoming = None /\ ~playing)
              => (advT = Off /\ commitT = Off /\ playT = Off))
    /\ [][/\ (playing' # playing /\ incoming # None)
              => /\ incoming' = incoming /\ idx' = idx
                 /\ commitT' = commitT
                 /\ {p \in probes' : p.live} = {p \in probes : p.live}
          /\ (last'.act = "commit")
              => /\ incoming.ready /\ sinceReady = HoldMs
                 /\ idx' = incoming.idx /\ incoming' = None]_vars

\* C27's case: playing was switched off during the transition (an advance
\* is staged only while playing is true) and the commit has come all the
\* same; the engine is idle with no timer armed.
CommittedWhilePaused ==
    /\ last.act = "commit" /\ ~playing /\ incoming = None
    /\ safeLen = 2 /\ shownIdx = 1 /\ shownItem.type = "image"
    /\ advT = Off

\* C28: every arming of the advance timer starts a full period.  While the
\* timer is armed its due time lies max(500, intervalSec * 1000) ms after
\* the arming; a step that arms it (it was off, or the step is a commit, an
\* edit of the interval, or playing going from false to true) leaves it
\* with the first tick 16 ms away and the whole period to run, whatever
\* had elapsed before; and a change of transitionMode leaves the timer,
\* its due time and the rest of the engine as they were.
ArmedForFullPeriod ==
    /\ [](advT # Off
             => dueRem = Max(MinIntervalMs, intervalSec * 500) - sinceArmed)
    /\ [][/\ (/\ advT' # Off
              /\ \/ advT = Off
                 \/ last'.act \in {"commit", "SetIntervalSec"}
                 \/ (~playing /\ playing'))
              => /\ advT' = TickMs /\ sinceArmed' = 0
                 /\ dueRem' = Max(MinIntervalMs, intervalSec' * 500)
          /\ (last'.act = "SetTransitionMode")
              => UNCHANGED <<advT, dueRem, sinceArmed, commitT, playT,
                             idx, incoming, playing, intervalSec>>]_vars

\* C28's case: the show was paused on the second image of a list and has
\* just been resumed from the settings sheet; the timer is armed with the
\* whole period of the longer interval to run.
ResumedForFullPeriod ==
    /\ last.act = "TogglePlaying" /\ playing
    /\ shownItem.type = "image" /\ shownIdx = 1
    /\ intervalSec = 2 * InitialIntervalSec
    /\ advT = TickMs /\ sinceArmed = 0
    /\ dueRem = intervalSec * 500

\* C29: an edit of intervalSec in the settings sheet restarts the show
\* although the list is the same.  The step changes intervalSec and leaves
\* items, playing and the sheet as they were; after it the shown position is
\* 0 and incoming is None, whatever position was shown and whether an
\* incoming existed before, so the shown item is the first item of the order
\* (none for an empty list) and the next advance goes to position 1.
IntervalEditRestartsShow ==
    [][(last'.act = "SetIntervalSec")
          => /\ intervalSec' # intervalSec /\ items' = items
             /\ playing' = playing /\ settingsOpen' = settingsOpen
             /\ idx' = 0 /\ incoming' = None
             /\ shownItem' = (IF Len(items) > 0 THEN items[1] ELSE NoItem)
             /\ \A p \in probes' : ~p.live]_vars

\* C29's case: the interval was edited while a video incoming of a list of
\* two was being probed; the show is back at the first item and the probe
\* of the discarded incoming is left behind.
IntervalEditedInFlight ==
    /\ last.act = "SetIntervalSec" /\ safeLen = 2
    /\ idx = 0 /\ incoming = None /\ shownItem = items[1]
    /\ \E p \in probes : p.abandoned /\ p.cancelled

====
